---- MODULE Spec2Model ----
(***************************************************************************)
(* A model of src/main.py: the world-generation HTTP service.              *)
(*                                                                         *)
(* Text is a sequence of tokens.  A token is one character class ("{",     *)
(* "}", ",", a blank, a word character "w") or one whole JSON member       *)
(* ("summary=X" stands for the member  "summary": "X").  A Python dict is  *)
(* a function whose DOMAIN is its key set.  None (an absent embedding) is  *)
(* the record NoneEmb; a vector v is Vec(v).                               *)
(*                                                                         *)
(* The generative model and the embedding provider are the environment:    *)
(* each call answers with any of its outcomes.  The embedding provider     *)
(* returns non-empty vectors of integers, of possibly different lengths.   *)
(* Scores are exact reals; the rounding of floats is not modelled.         *)
(* A handler takes one step per provider call: the calls are the only      *)
(* places where another request may run in between.                        *)
(***************************************************************************)
EXTENDS Integers, Sequences, FiniteSets, TLC

VARIABLES worlds, req, arrivals, owners

vars == <<worlds, req, arrivals, owners>>

(***************************************************************************)
(* Bounds of the model.                                                    *)
(***************************************************************************)
MaxTextLen == 6
MaxInFlight == 2
MaxRequests == 2
MaxWorlds == 3

(***************************************************************************)
(* Program constants.                                                      *)
(***************************************************************************)
MaxAttempts == 3
BackoffBase == 2
DefaultTopN == 3

FallbackSummary == "A mystical desert world shaped by nomadic wisdom."
FallbackMyth == "The Whispering Wind guides lost souls to hidden sanctuaries."

(***************************************************************************)
(* Generic helpers.                                                        *)
(***************************************************************************)
Min(a, b) == IF a <= b THEN a ELSE b
Max(a, b) == IF a >= b THEN a ELSE b

RECURSIVE Pow(_, _)
Pow(b, e) == IF e = 0 THEN 1 ELSE b * Pow(b, e - 1)

\* Python's seq[:n] for any integer n.
SliceTo(seq, n) ==
    IF n >= 0 THEN SubSeq(seq, 1, Min(n, Len(seq)))
    ELSE SubSeq(seq, 1, Max(0, Len(seq) + n))

\* str.find / str.rfind of a one-character needle: a 0-based index, or -1.
Find(text, ch) ==
    IF \E i \in 1..Len(text) : text[i] = ch
    THEN (CHOOSE i \in 1..Len(text) :
              text[i] = ch /\ \A j \in 1..(i - 1) : text[j] # ch) - 1
    ELSE -1

RFind(text, ch) ==
    IF \E i \in 1..Len(text) : text[i] = ch
    THEN (CHOOSE i \in 1..Len(text) :
              text[i] = ch /\ \A j \in (i + 1)..Len(text) : text[j] # ch) - 1
    ELSE -1

\* str.strip(): leading and trailing blanks removed.
RECURSIVE LStrip(_)
LStrip(t) == IF t # <<>> /\ Head(t) = " " THEN LStrip(Tail(t)) ELSE t

RECURSIVE RStrip(_)
RStrip(t) ==
    IF t # <<>> /\ t[Len(t)] = " " THEN RStrip(SubSeq(t, 1, Len(t) - 1)) ELSE t

\* Mutant of Strip: only the leading blanks are removed.
StripLeftOnly(t) == LStrip(t)

Strip(t) == RStrip(LStrip(t))

(***************************************************************************)
(* Embeddings.                                                             *)
(***************************************************************************)
NoneEmb == [present |-> FALSE, values |-> <<>>]
Vec(v) == [present |-> TRUE, values |-> v]

\* Python truthiness of an embedding: None and the empty list are falsy.
Truthy(e) == e.present /\ e.values # <<>>

(***************************************************************************)
(* JSON members and json.loads on the token text.                          *)
(***************************************************************************)
PairTokens == {"summary=X", "myth=Y", "id=99", "reasoning=Z", "embedding=[9]"}

KeyOf(tok) ==
    CASE tok = "summary=X" -> "summary"
      [] tok = "myth=Y" -> "myth"
      [] tok = "id=99" -> "id"
      [] tok = "reasoning=Z" -> "reasoning"
      [] tok = "embedding=[9]" -> "embedding"

ValOf(tok) ==
    CASE tok = "summary=X" -> "X"
      [] tok = "myth=Y" -> "Y"
      [] tok = "id=99" -> 99
      [] tok = "reasoning=Z" -> <<"Z">>
      [] tok = "embedding=[9]" -> Vec(<<9>>)

RECURSIVE DropBlanks(_)
DropBlanks(t) ==
    IF t = <<>> THEN <<>>
    ELSE IF Head(t) = " " THEN DropBlanks(Tail(t))
    ELSE <<Head(t)>> \o DropBlanks(Tail(t))

\* json.loads of a text that starts with "{" and ends with "}": blanks between
\* tokens are insignificant; the text is an object iff its members are
\* separated by single commas.  A repeated key keeps its last value.
JsonLoads(jsonText) ==
    LET t == DropBlanks(jsonText)
        n == Len(t)
        inner == SubSeq(t, 2, n - 1)
        m == Len(inner)
        wellFormed ==
            /\ n >= 2 /\ t[1] = "{" /\ t[n] = "}"
            /\ \/ m = 0
               \/ /\ m % 2 = 1
                  /\ \A i \in 1..m :
                        IF i % 2 = 1 THEN inner[i] \in PairTokens
                        ELSE inner[i] = ","
        keys == {KeyOf(inner[i]) : i \in {j \in 1..m : j % 2 = 1}}
        last(k) == CHOOSE i \in 1..m :
                      /\ i % 2 = 1 /\ KeyOf(inner[i]) = k
                      /\ \A j \in (i + 1)..m :
                            j % 2 = 1 => KeyOf(inner[j]) # k
    IN  IF wellFormed
        THEN [ok |-> TRUE, obj |-> [k \in keys |-> ValOf(inner[last(k)])]]
        ELSE [ok |-> FALSE, obj |-> <<>>]

\* extract_json_and_reasoning: found = FALSE is the None result.
ExtractJsonAndReasoning(text) ==
    LET start == Find(text, "{")
        end == RFind(text, "}")
    IN  IF start = -1 \/ end = -1 \/ end <= start
        THEN [found |-> FALSE, reasoning |-> <<>>, parsed |-> <<>>]
        ELSE LET reasoning == Strip(SubSeq(text, 1, start))
                 jsonText == SubSeq(text, start + 1, end + 1)
                 loaded == JsonLoads(jsonText)
             IN  IF loaded.ok
                 THEN [found |-> TRUE, reasoning |-> reasoning,
                       parsed |-> loaded.obj]
                 ELSE [found |-> FALSE, reasoning |-> <<>>, parsed |-> <<>>]

(***************************************************************************)
(* generate_world, up to the embedding call.                               *)
(***************************************************************************)
DefaultWorld(biome, culture, tone) ==
    [k \in {"summary", "biome", "culture", "tone", "myth"} |->
        CASE k = "summary" -> FallbackSummary
          [] k = "biome" -> biome
          [] k = "culture" -> culture
          [] k = "tone" -> tone
          [] k = "myth" -> FallbackMyth]

\* Mutant of MergeParsed: world.update(parsed_world).
MergeAll(world, parsedWorld) ==
    [k \in DOMAIN world \cup DOMAIN parsedWorld |->
        IF k \in DOMAIN parsedWorld THEN parsedWorld[k] ELSE world[k]]

\* for key in world: if key in parsed_world: world[key] = parsed_world[key]
MergeParsed(world, parsedWorld) ==
    [k \in DOMAIN world |->
        IF k \in DOMAIN parsedWorld THEN parsedWorld[k] ELSE world[k]]

\* A response of the generative model: the call (or reading res.text) raised,
\* or it returned a text.
GenFailure == [failed |-> TRUE, text |-> <<>>]
GenText(t) == [failed |-> FALSE, text |-> t]

\* Mutant of Reconcile: the reasoning is taken before the JSON is parsed.
ReconcileKeepsReasoningOnFailure(out, biome, culture, tone) ==
    LET world == DefaultWorld(biome, culture, tone)
    IN  IF out.failed
        THEN [reasoning |-> <<>>, world |-> world]
        ELSE LET parsed == ExtractJsonAndReasoning(out.text)
                 start == Find(out.text, "{")
             IN  IF parsed.found
                 THEN [reasoning |-> parsed.reasoning,
                       world |-> MergeParsed(world, parsed.parsed)]
                 ELSE [reasoning |->
                          IF start = -1 THEN <<>>
                          ELSE Strip(SubSeq(out.text, 1, start)),
                       world |-> world]

\* Lines 104-129: the reasoning and the record generate_world holds when it
\* reaches the embedding call.
Reconcile(out, biome, culture, tone) ==
    LET world == DefaultWorld(biome, culture, tone)
    IN  IF out.failed
        THEN [reasoning |-> <<>>, world |-> world]
        ELSE LET parsed == ExtractJsonAndReasoning(out.text)
             IN  IF parsed.found
                 THEN [reasoning |-> parsed.reasoning,
                       world |-> MergeParsed(world, parsed.parsed)]
                 ELSE [reasoning |-> <<>>, world |-> world]

(***************************************************************************)
(* embed_text: one iteration of "for attempt in range(3)".                 *)
(***************************************************************************)
\* What one call of the embedding provider does: it returns a vector, raises
\* an exception whose message contains "429", or raises any other exception.
EmbOk(v) == [kind |-> "ok", emb |-> Vec(v)]
EmbRateLimit == [kind |-> "rate", emb |-> NoneEmb]
EmbOther == [kind |-> "other", emb |-> NoneEmb]

\* Mutant of Retries: every failure is retried.
RetriesAlways(o, attempt) == o.kind # "ok" /\ attempt < MaxAttempts - 1

\* if "429" in str(e) and attempt < 2
Retries(o, attempt) == o.kind = "rate" /\ attempt < MaxAttempts - 1

\* time.sleep(2 ** attempt)
SleepTime(attempt) == Pow(BackoffBase, attempt)

\* The iteration at loop index attempt, the provider answering o: either the
\* function returns value, or it sleeps and goes on to attempt + 1.
EmbedIter(attempt, o) ==
    IF o.kind = "ok"
    THEN [returns |-> TRUE, value |-> o.emb, sleep |-> 0]
    ELSE IF Retries(o, attempt)
    THEN [returns |-> FALSE, value |-> NoneEmb, sleep |-> SleepTime(attempt)]
    ELSE [returns |-> TRUE, value |-> NoneEmb, sleep |-> 0]

(***************************************************************************)
(* Similarity functions.  A real number is held exactly, as Real(sq, den)  *)
(* with den > 0, standing for sgn(sq) * sqrt(|sq| / den): a dot product p  *)
(* is Real(sgn(p) * p * p, 1) and a distance sqrt(d) is Real(d, 1).        *)
(***************************************************************************)
Real(sq, den) == [sq |-> sq, den |-> den]
SignedSquare(p) == IF p >= 0 THEN p * p ELSE -(p * p)
RealLess(x, y) == x.sq * y.den < y.sq * x.den
RealEq(x, y) == x.sq * y.den = y.sq * x.den
RealNeg(x) == Real(-x.sq, x.den)

\* sum(x * y for x, y in zip(a, b)): zip stops at the shorter sequence.
RECURSIVE ZipSum(_, _, _)
ZipSum(a, b, i) ==
    IF i > Min(Len(a), Len(b)) THEN 0 ELSE a[i] * b[i] + ZipSum(a, b, i + 1)

DotInt(a, b) == ZipSum(a, b, 1)

RECURSIVE ZipSqDiff(_, _, _)
ZipSqDiff(a, b, i) ==
    IF i > Min(Len(a), Len(b)) THEN 0
    ELSE (a[i] - b[i]) * (a[i] - b[i]) + ZipSqDiff(a, b, i + 1)

dot_product(a, b) == Real(SignedSquare(DotInt(a, b)), 1)

\* dot / (norm_a * norm_b); the division raises ZeroDivisionError when a norm
\* is 0.0 (CosineRaises), and the value is then never used.
CosineRaises(a, b) == DotInt(a, a) = 0 \/ DotInt(b, b) = 0

cosine_similarity(a, b) ==
    Real(SignedSquare(DotInt(a, b)), Max(1, DotInt(a, a) * DotInt(b, b)))

euclidean_distance(a, b) == Real(ZipSqDiff(a, b, 1), 1)

Metric(ep, a, b) ==
    CASE ep = "dot" -> dot_product(a, b)
      [] ep = "cosine" -> cosine_similarity(a, b)
      [] ep = "l2" -> euclidean_distance(a, b)

(***************************************************************************)
(* The similarity handlers: list comprehension, list.sort, slice.          *)
(***************************************************************************)
SimEndpoints == {"dot", "cosine", "l2"}

\* The Worlds the comprehension keeps: for w in worlds if w["embedding"].

RECURSIVE Candidates(_)
Candidates(ws) ==
    IF ws = <<>> THEN <<>>
    ELSE IF Truthy(Head(ws)["embedding"])
    THEN <<Head(ws)>> \o Candidates(Tail(ws))
    ELSE Candidates(Tail(ws))

\* The comprehension raises: zip(None, ...) is a TypeError, and the cosine of
\* a zero vector a ZeroDivisionError.  Nothing is evaluated for an empty
\* candidate list.
SimRaises(ep, q, ws) ==
    \E i \in 1..Len(Candidates(ws)) :
        \/ ~q.present
        \/ ep = "cosine"
           /\ CosineRaises(q.values, Candidates(ws)[i]["embedding"].values)

MatchOf(ep, q, w) ==
    [id |-> w["id"], summary |-> w["summary"], tone |-> w["tone"],
     score |-> Metric(ep, q.values, w["embedding"].values)]

\* Mutant of SortKey: the score is not negated.
SortKeyAscending(ep, m) == m.score

\* The sort key: -score for dot and cosine, distance for l2.
SortKey(ep, m) == IF ep = "l2" THEN m.score ELSE RealNeg(m.score)

\* list.sort(key=...): ascending in the key and stable.  x is put before the
\* first element whose key is greater than its own.
RECURSIVE InsertByKey(_, _, _)
InsertByKey(ep, sorted, x) ==
    IF sorted = <<>> THEN <<x>>
    ELSE IF RealLess(SortKey(ep, x), SortKey(ep, Head(sorted)))
    THEN <<x>> \o sorted
    ELSE <<Head(sorted)>> \o InsertByKey(ep, Tail(sorted), x)

RECURSIVE SortMatches(_, _, _)
SortMatches(ep, ms, acc) ==
    IF ms = <<>> THEN acc
    ELSE SortMatches(ep, Tail(ms), InsertByKey(ep, acc, Head(ms)))

Matches(ep, q, ws) ==
    LET cs == Candidates(ws)
    IN  SortMatches(ep, [i \in 1..Len(cs) |-> MatchOf(ep, q, cs[i])], <<>>)

(***************************************************************************)
(* Responses.                                                              *)
(***************************************************************************)
EmptyDict == [k \in {} |-> 0]

NoResponse ==
    [kind |-> "none", message |-> "", world |-> EmptyDict, matches |-> <<>>]
WorldResponse(msg, w) ==
    [kind |-> "world", message |-> msg, world |-> w, matches |-> <<>>]
ErrorResponse(msg) ==
    [kind |-> "error", message |-> msg, world |-> EmptyDict, matches |-> <<>>]
MatchesResponse(ms) ==
    [kind |-> "matches", message |-> "", world |-> EmptyDict, matches |-> ms]
\* The handler raised: the framework answers with an HTTP 500.
Unhandled ==
    [kind |-> "raise", message |-> "Internal Server Error",
     world |-> EmptyDict, matches |-> <<>>]

\* similar_dot / similar_cosine / similar_l2 after embed_text returned q.
SimilarResponse(ep, q, ws, topN) ==
    IF SimRaises(ep, q, ws) THEN Unhandled
    ELSE MatchesResponse(SliceTo(Matches(ep, q, ws), topN))

(***************************************************************************)
(* Storing a World.                                                        *)
(***************************************************************************)
DictPut(d, k, v) == [x \in DOMAIN d \cup {k} |-> IF x = k THEN v ELSE d[x]]
DictUpdate(d, e) ==
    [x \in DOMAIN d \cup DOMAIN e |-> IF x \in DOMAIN e THEN e[x] ELSE d[x]]

\* Mutant of NewId: the id is the length itself.
NewIdZeroBased(ws, len0) == Len(ws)

\* Mutant of NewId: the length is read before generate_world is awaited.
NewIdAtArrival(ws, len0) == len0 + 1

\* new_id = len(worlds) + 1, read when generate_world has returned.  len0 is
\* the length of the collection when the request arrived.
NewId(ws, len0) == Len(ws) + 1

\* {"id": new_id, "reasoning": ..., **result["world"], "embedding": ...}
FullWorld(newId, reasoning, world, embedding) ==
    DictPut(DictUpdate(DictPut(DictPut(EmptyDict, "id", newId),
                               "reasoning", reasoning), world),
            "embedding", embedding)

(***************************************************************************)
(* Requests.  A slot holds the local variables of one handler invocation   *)
(* and its position: "model" at generate_content in generate_world,        *)
(* "fnmodel" at generate_content in function_call, "embed" at              *)
(* embed_content, "done" once the handler has answered.  ticket, len0,     *)
(* out, fn, calls and slept are history: the arrival number, the length    *)
(* of the collection at arrival, what the providers answered and the time  *)
(* slept so far.  embedding is what embed_text returned (query_embedding,  *)
(* result["embedding"]) once embedded is TRUE.                             *)
(***************************************************************************)
\* What the model answers to function_call: the call raises, the response
\* carries no function call, one of another name, or generateWorld with args.
FnArgs(biome, culture, tone) ==
    [k \in {"biome", "culture", "tone"} |->
        CASE k = "biome" -> biome [] k = "culture" -> culture
          [] k = "tone" -> tone]

FnUnset == [kind |-> "unset", name |-> "", args |-> EmptyDict]
FnRaise == [kind |-> "raise", name |-> "", args |-> EmptyDict]
FnNone == [kind |-> "nofn", name |-> "", args |-> EmptyDict]
FnNamed(name, args) == [kind |-> "call", name |-> name, args |-> args]

\* Mutant of IsValidInvocation: the name is not compared.
IsValidInvocationAnyName(fn) == fn.kind = "call"

\* not (not fn or fn.name != "generateWorld")
IsValidInvocation(fn) == fn.kind = "call" /\ fn.name = "generateWorld"

Slots == 1..MaxInFlight

IdleRequest ==
    [ep |-> "none", pc |-> "idle", ticket |-> 0, len0 |-> 0,
     biome |-> "", culture |-> "", tone |-> "", topN |-> 0,
     out |-> GenFailure, fn |-> FnUnset, generated |-> FALSE,
     reasoning |-> <<>>, world |-> EmptyDict,
     attempt |-> 0, calls |-> <<>>, slept |-> 0,
     embedded |-> FALSE, embedding |-> NoneEmb,
     resp |-> NoResponse]

Init ==
    /\ worlds = <<>>
    /\ req = [s \in Slots |-> IdleRequest]
    /\ arrivals = 0
    /\ owners = <<>>

\* A request arrives in a free slot.  WorldRequest and FunctionCallRequest are
\* validated by the framework; the handler then runs to its first provider call.
ArriveGenerate(s, inputs, limit) ==
    /\ req[s].pc \in {"idle", "done"}
    /\ arrivals < limit
    /\ \E in \in inputs :
          req' = [req EXCEPT ![s] =
                    [IdleRequest EXCEPT !.ep = "generate", !.pc = "model",
                        !.ticket = arrivals + 1, !.len0 = Len(worlds),
                        !.biome = in.biome, !.culture = in.culture,
                        !.tone = in.tone]]
    /\ arrivals' = arrivals + 1
    /\ UNCHANGED <<worlds, owners>>

ArriveFunction(s, limit) ==
    /\ req[s].pc \in {"idle", "done"}
    /\ arrivals < limit
    /\ req' = [req EXCEPT ![s] =
                 [IdleRequest EXCEPT !.ep = "function", !.pc = "fnmodel",
                     !.ticket = arrivals + 1, !.len0 = Len(worlds)]]
    /\ arrivals' = arrivals + 1
    /\ UNCHANGED <<worlds, owners>>

ArriveSimilar(s, topNs) ==
    /\ req[s].pc \in {"idle", "done"}
    /\ \E ep \in SimEndpoints, n \in topNs :
          req' = [req EXCEPT ![s] =
                    [IdleRequest EXCEPT !.ep = ep, !.pc = "embed",
                        !.len0 = Len(worlds), !.topN = n]]
    /\ UNCHANGED <<worlds, arrivals, owners>>

\* function_call, lines 205-235: the model answers fn.
FunctionReturn(s, fnOuts) ==
    /\ req[s].pc = "fnmodel"
    /\ \E fn \in fnOuts :
          req' = [req EXCEPT ![s] =
             IF fn.kind = "raise"
             THEN [@ EXCEPT !.fn = fn, !.pc = "done",
                      !.resp = ErrorResponse("Function calling failed")]
             ELSE IF ~IsValidInvocation(fn)
             THEN [@ EXCEPT !.fn = fn, !.pc = "done",
                      !.resp = ErrorResponse("No valid function call returned")]
             ELSE IF {"biome", "culture", "tone"} \subseteq DOMAIN fn.args
             THEN [@ EXCEPT !.fn = fn, !.pc = "model",
                      !.biome = fn.args["biome"],
                      !.culture = fn.args["culture"],
                      !.tone = fn.args["tone"]]
             ELSE [@ EXCEPT !.fn = fn, !.pc = "done",
                      !.resp = ErrorResponse("Function calling failed")]]
    /\ UNCHANGED <<worlds, arrivals, owners>>

\* generate_world, lines 104-131: the model answers out.
GenerateReturn(s, outs) ==
    /\ req[s].pc = "model"
    /\ \E out \in outs :
          LET r == Reconcile(out, req[s].biome, req[s].culture, req[s].tone)
          IN  req' = [req EXCEPT ![s] =
                        [@ EXCEPT !.out = out, !.generated = TRUE,
                            !.reasoning = r.reasoning,
                            !.world = r.world, !.pc = "embed",
                            !.attempt = 0]]
    /\ UNCHANGED <<worlds, arrivals, owners>>

\* The handler from the return of embed_text to its answer.
Answer(s, r, embedding) ==
    IF r.ep \in SimEndpoints
    THEN /\ req' = [req EXCEPT ![s] =
                      [r EXCEPT !.pc = "done",
                          !.resp = SimilarResponse(r.ep, embedding, worlds,
                                                   r.topN)]]
         /\ UNCHANGED <<worlds, owners>>
    ELSE LET full == FullWorld(NewId(worlds, r.len0), r.reasoning, r.world,
                               embedding)
         IN  /\ worlds' = Append(worlds, full)
             /\ owners' = Append(owners, r.ticket)
             /\ req' = [req EXCEPT ![s] =
                          [r EXCEPT !.pc = "done",
                              !.resp = WorldResponse(
                                  IF r.ep = "generate" THEN "World generated"
                                  ELSE "Function call successful", full)]]

\* One iteration of embed_text's loop: the provider answers o.
EmbedReturn(s, embOuts) ==
    /\ req[s].pc = "embed"
    /\ \E o \in embOuts :
          LET it == EmbedIter(req[s].attempt, o)
              r == [req[s] EXCEPT
                       !.calls = Append(@, [kind |-> o.kind, emb |-> o.emb,
                                            at |-> req[s].slept]),
                       !.slept = @ + it.sleep]
          IN  IF it.returns
              THEN Answer(s, [r EXCEPT !.embedded = TRUE,
                                       !.embedding = it.value], it.value)
              ELSE /\ req' = [req EXCEPT ![s] =
                                [r EXCEPT !.attempt = @ + 1]]
                   /\ UNCHANGED <<worlds, owners>>
    /\ UNCHANGED arrivals

(***************************************************************************)
(* What the requests and the providers are drawn from.                     *)
(***************************************************************************)
Inputs == {[biome |-> "tundra", culture |-> "nomadic", tone |-> "hopeful"]}

\* Every text of at most MaxTextLen tokens.
GenAlphabet == {"{", "}", ",", " ", "w", "summary=X", "myth=Y", "id=99"}

\* A sample of model responses: a failure, and reasoning followed by an
\* object that names summary, id, reasoning and embedding.
SampleOuts ==
    {GenFailure,
     GenText(<<"w", " ", "{", "summary=X", ",", "id=99", ",", "reasoning=Z",
               ",", "embedding=[9]", "}">>)}

FnOuts ==
    {FnRaise, FnNone,
     FnNamed("describeWorld", FnArgs("tundra", "nomadic", "hopeful")),
     FnNamed("generateWorld", FnArgs("desert", "nomadic", "mystical")),
     FnNamed("generateWorld", [k \in {"biome"} |-> "desert"])}

EmbOutsOf(Vs) == {EmbOk(v) : v \in Vs} \cup {EmbRateLimit, EmbOther}

SmallVectors == {<<1, 0>>}
Vectors == {<<1, 0>>, <<-1, 1>>, <<0, 0>>, <<2>>}
TopNs == {1, DefaultTopN}

(***************************************************************************)
(* Spec: generation requests in flight together in MaxInFlight slots,      *)
(* interleaving at the provider calls.                                     *)
(***************************************************************************)
Next ==
    \E s \in Slots :
        \/ ArriveGenerate(s, Inputs, MaxRequests)
        \/ ArriveFunction(s, MaxRequests)
        \/ FunctionReturn(s, FnOuts)
        \/ GenerateReturn(s, SampleOuts)
        \/ EmbedReturn(s, EmbOutsOf(SmallVectors))

Spec == Init /\ [][Next]_vars

(***************************************************************************)
(* SpecSeq: generation requests issued one after another, each completed   *)
(* before the next arrives.                                                *)
(***************************************************************************)
NextSeq ==
    \/ ArriveGenerate(1, Inputs, MaxWorlds)
    \/ ArriveFunction(1, MaxWorlds)
    \/ FunctionReturn(1, FnOuts)
    \/ GenerateReturn(1, SampleOuts)
    \/ EmbedReturn(1, EmbOutsOf(SmallVectors))

SpecSeq == Init /\ [][NextSeq]_vars

(***************************************************************************)
(* SpecRank: /generate-world and the similarity endpoints, one request     *)
(* after another, over a store of at most MaxWorlds Worlds.                *)
(***************************************************************************)
RankOuts == {GenFailure, GenText(<<"w", "{", "summary=X", "}">>)}

NextRank ==
    \/ ArriveGenerate(1, Inputs, MaxWorlds)
    \/ ArriveSimilar(1, TopNs)
    \/ GenerateReturn(1, RankOuts)
    \/ EmbedReturn(1, EmbOutsOf(Vectors))

SpecRank == Init /\ [][NextRank]_vars

(***************************************************************************)
(* SpecEmbed: similarity requests one after another, followed through      *)
(* embed_text.  The loop goes on: a provider call returns or times out.    *)
(***************************************************************************)
NextEmbed ==
    \/ ArriveSimilar(1, TopNs)
    \/ EmbedReturn(1, EmbOutsOf(Vectors))

SpecEmbed ==
    Init /\ [][NextEmbed]_vars /\ WF_vars(EmbedReturn(1, EmbOutsOf(Vectors)))

(***************************************************************************)
(* SpecGen: one /generate-world request up to its embedding call, the      *)
(* model answering with any text of at most MaxTextLen tokens.             *)
(***************************************************************************)
NextGen ==
    \/ ArriveGenerate(1, Inputs, 1)
    \/ GenerateReturn(1, {GenFailure})
    \/ /\ req[1].pc = "model"
       /\ \E n \in 0..MaxTextLen :
             \E t \in [1..n -> GenAlphabet] : GenerateReturn(1, {GenText(t)})

SpecGen == Init /\ [][NextGen]_vars

(***************************************************************************)
(* Vocabulary of the properties, stated on the token text itself.          *)
(***************************************************************************)
DefaultKeys == {"summary", "biome", "culture", "tone", "myth"}
WorldKeys == DefaultKeys \cup {"id", "reasoning", "embedding"}

Occurs(text, ch) == \E i \in 1..Len(text) : text[i] = ch
FirstAt(text, ch) ==
    CHOOSE i \in 1..Len(text) : text[i] = ch /\ ~Occurs(SubSeq(text, 1, i - 1), ch)
LastAt(text, ch) ==
    CHOOSE i \in 1..Len(text) :
        text[i] = ch /\ ~Occurs(SubSeq(text, i + 1, Len(text)), ch)

\* The text from the first "{" to the last "}", and the text before it.
Braced(text) == SubSeq(text, FirstAt(text, "{"), LastAt(text, "}"))
Preamble(text) == SubSeq(text, 1, FirstAt(text, "{") - 1)

AllBlank(t) == \A i \in 1..Len(t) : t[i] = " "

\* t with its leading and trailing blanks removed is u.
IsTrimOf(u, t) ==
    /\ u = <<>> \/ (u[1] # " " /\ u[Len(u)] # " ")
    /\ \E i \in 0..Len(t), j \in 0..Len(t) :
          /\ i + Len(u) + j = Len(t)
          /\ AllBlank(SubSeq(t, 1, i))
          /\ SubSeq(t, i + 1, i + Len(u)) = u
          /\ AllBlank(SubSeq(t, i + Len(u) + 1, Len(t)))

\* The JSON grammar of an object, by recursive descent over the tokens.
RECURSIVE AfterMember(_)
AfterMember(t) ==
    LET a == LStrip(t)
    IN  /\ a # <<>>
        /\ IF Head(a) = "}" THEN AllBlank(Tail(a))
           ELSE /\ Head(a) = ","
                /\ LET b == LStrip(Tail(a))
                   IN  b # <<>> /\ Head(b) \in PairTokens /\ AfterMember(Tail(b))

IsJsonObject(t) ==
    LET a == LStrip(t)
    IN  /\ a # <<>> /\ Head(a) = "{"
        /\ LET b == LStrip(Tail(a))
           IN  /\ b # <<>>
               /\ IF Head(b) = "}" THEN AllBlank(Tail(b))
                  ELSE Head(b) \in PairTokens /\ AfterMember(Tail(b))

\* The generation-side failure paths of generate_world.
GenerationFailed(out) ==
    \/ out.failed
    \/ ~Occurs(out.text, "{")
    \/ ~Occurs(out.text, "}")
    \/ LastAt(out.text, "}") <= FirstAt(out.text, "{")
    \/ ~IsJsonObject(Braced(out.text))

\* The object has a member named k; the value of its last such member.
HasMember(t, k) == \E i \in 1..Len(t) : t[i] \in PairTokens /\ KeyOf(t[i]) = k
MemberValue(t, k) ==
    LET i == CHOOSE i \in 1..Len(t) :
                /\ t[i] \in PairTokens /\ KeyOf(t[i]) = k
                /\ ~HasMember(SubSeq(t, i + 1, Len(t)), k)
    IN  ValOf(t[i])

\* The defaults of a request: the fallback literals and the caller's inputs.
Defaults(r) ==
    [summary |-> FallbackSummary, biome |-> r.biome, culture |-> r.culture,
     tone |-> r.tone, myth |-> FallbackMyth]

(***************************************************************************)
(* C3.  generate_world does not raise on a generation-side failure: on     *)
(* every failure path (the model call fails, the text has no "{", no "}",  *)
(* its last "}" is not after its first "{", or the braced text is not      *)
(* JSON) it goes on to the embedding call with empty reasoning and the     *)
(* default record: the fallback summary and myth and the caller's biome,   *)
(* culture and tone.                                                       *)
(***************************************************************************)
C3_FallbackOnFailure ==
    \A s \in Slots :
        (req[s].generated /\ GenerationFailed(req[s].out)) =>
            /\ req[s].pc = "embed"
            /\ req[s].reasoning = <<>>
            /\ req[s].world = Defaults(req[s])

\* Braces in the right order around text that is not JSON, after some prose.
C3_Witness ==
    /\ req[1].generated /\ ~req[1].out.failed
    /\ Occurs(req[1].out.text, "{") /\ Occurs(req[1].out.text, "}")
    /\ FirstAt(req[1].out.text, "{") > 1
    /\ req[1].out.text[1] = "w"
    /\ LastAt(req[1].out.text, "}") > FirstAt(req[1].out.text, "{")
    /\ ~IsJsonObject(Braced(req[1].out.text))
    /\ HasMember(Braced(req[1].out.text), "summary")
    /\ req[1].world["summary"] = FallbackSummary

(***************************************************************************)
(* C4.  When the response parses, the reasoning is the text before the     *)
(* first "{" with its leading and trailing blanks removed, the record has  *)
(* exactly the keys of the defaults, and each key holds the parsed         *)
(* object's value if the object has that key and the default otherwise.    *)
(***************************************************************************)
C4_MergeOnSuccess ==
    \A s \in Slots :
        (req[s].generated /\ ~GenerationFailed(req[s].out)) =>
            LET obj == Braced(req[s].out.text)
            IN  /\ IsTrimOf(req[s].reasoning, Preamble(req[s].out.text))
                /\ DOMAIN req[s].world = DefaultKeys
                /\ \A k \in DefaultKeys :
                      req[s].world[k] =
                          IF HasMember(obj, k) THEN MemberValue(obj, k)
                          ELSE Defaults(req[s])[k]

\* Reasoning, then an object with a default key and another.
C4_Witness ==
    /\ req[1].generated /\ ~GenerationFailed(req[1].out)
    /\ req[1].reasoning = <<"w">>
    /\ HasMember(Braced(req[1].out.text), "summary")
    /\ HasMember(Braced(req[1].out.text), "id")
    /\ req[1].world["summary"] = "X"
    /\ req[1].world["myth"] = FallbackMyth

(***************************************************************************)
(* History of embed_text, read from a request's call log.                  *)
(***************************************************************************)
\* The time slept before the i-th call of the provider.
WaitedBefore(r, i) == IF i = 1 THEN r.calls[1].at ELSE r.calls[i].at - r.calls[i - 1].at

C2_Safe ==
    \A s \in Slots :
        LET r == req[s]
            n == Len(r.calls)
        IN  /\ n <= 3
            /\ \A i \in 2..n : r.calls[i - 1].kind = "rate"
            /\ n >= 1 => WaitedBefore(r, 1) = 0
            /\ n >= 2 => WaitedBefore(r, 2) = 1
            /\ n >= 3 => WaitedBefore(r, 3) = 2
            /\ r.pc = "embed" =>
                  /\ ~r.embedded /\ n < 3
                  /\ \A i \in 1..n : r.calls[i].kind = "rate"
            /\ r.embedded =>
                  /\ n >= 1
                  /\ r.pc = "done"
                  /\ r.calls[n].kind = "ok" =>
                        r.embedding.present /\ r.embedding = r.calls[n].emb
                  /\ r.calls[n].kind # "ok" => r.embedding = NoneEmb
                  /\ r.calls[n].kind = "rate" => n = 3

(***************************************************************************)
(* C2.  Whatever the embedding provider does, embed_text calls it at most  *)
(* 3 times, calls again only after a rate-limit (429) failure, waits 1     *)
(* time unit before the 2nd call and 2 before the 3rd, returns the vector  *)
(* of the first successful call, returns an absent embedding as soon as a  *)
(* call fails otherwise or the 3rd call fails, and always terminates.      *)
(***************************************************************************)
C2_EmbedRetry ==
    /\ []C2_Safe
    /\ \A s \in Slots : (req[s].pc = "embed") ~> (req[s].pc = "done")

\* Two rate-limit failures, then the third call succeeds.
C2_Witness ==
    /\ req[1].pc = "done" /\ req[1].embedded
    /\ Len(req[1].calls) = 3
    /\ req[1].calls[3].kind = "ok"
    /\ req[1].embedding = Vec(<<-1, 1>>)
    /\ req[1].slept = 3

(***************************************************************************)
(* Similarity requests that have been answered.                            *)
(***************************************************************************)
Answered(s) == req[s].pc = "done" /\ req[s].ep \in SimEndpoints

\* The Worlds of the store whose embedding is present.
PresentIds == {k \in 1..Len(worlds) : worlds[k]["embedding"].present}

(***************************************************************************)
(* C5.  The matches /similar-worlds-l2 returns are in ascending order of   *)
(* distance, those of /similar-worlds-dot and /similar-worlds-cosine in    *)
(* descending order of score, and two matches of equal metric value are    *)
(* in the order their Worlds were inserted (ascending id).                 *)
(***************************************************************************)
C5_MatchesOrdered ==
    \A s \in Slots :
        (Answered(s) /\ req[s].resp.kind = "matches") =>
            LET ms == req[s].resp.matches
            IN  \A i \in 1..Len(ms), j \in 1..Len(ms) :
                    i < j =>
                        /\ req[s].ep = "l2" =>
                              ~RealLess(ms[j].score, ms[i].score)
                        /\ req[s].ep # "l2" =>
                              ~RealLess(ms[i].score, ms[j].score)
                        /\ RealEq(ms[i].score, ms[j].score) =>
                              ms[i].id < ms[j].id

\* Three matches by dot product: a strict step down, then a tie.
C5_Witness ==
    /\ Answered(1) /\ req[1].ep = "dot" /\ req[1].resp.kind = "matches"
    /\ Len(req[1].resp.matches) = 3
    /\ RealLess(req[1].resp.matches[2].score, req[1].resp.matches[1].score)
    /\ RealEq(req[1].resp.matches[2].score, req[1].resp.matches[3].score)
    /\ req[1].resp.matches[1].id = 3
    /\ req[1].resp.matches[1].score.sq > 0
    /\ req[1].resp.matches[3].score.sq < 0

(***************************************************************************)
(* C6.  For every similarity endpoint, positive topN and store with k      *)
(* Worlds whose embedding is present, the response holds exactly           *)
(* min(topN, k) matches, each of a distinct stored World whose embedding   *)
(* is present, and a topN above k returns all k without error.             *)
(***************************************************************************)
C6_MatchCount ==
    \A s \in Slots :
        (Answered(s) /\ req[s].topN > 0) =>
            LET ms == req[s].resp.matches
                k == Cardinality(PresentIds)
            IN  /\ req[s].resp.kind = "matches"
                /\ Len(ms) = Min(req[s].topN, k)
                /\ \A i \in 1..Len(ms) : ms[i].id \in PresentIds
                /\ \A i \in 1..Len(ms), j \in 1..Len(ms) :
                      i # j => ms[i].id # ms[j].id

(***************************************************************************)
(* C7.  Every endpoint-level failure ends in a normal response body with   *)
(* an error field, never in an unhandled exception: so for a similarity    *)
(* endpoint whose query embedding is absent while the store holds a World  *)
(* with a present embedding, and for /ai-function-call when the model call *)
(* or the argument extraction fails.                                       *)
(***************************************************************************)
C7_FailuresAnswered ==
    \A s \in Slots :
        req[s].pc = "done" =>
            /\ req[s].resp.kind # "raise"
            /\ (/\ req[s].ep \in SimEndpoints
                /\ ~req[s].embedding.present
                /\ PresentIds # {}) => req[s].resp.kind = "error"
            /\ (/\ req[s].ep = "function"
                /\ \/ req[s].fn.kind = "raise"
                   \/ /\ req[s].fn.kind = "call"
                      /\ req[s].fn.name = "generateWorld"
                      /\ ~({"biome", "culture", "tone"}
                              \subseteq DOMAIN req[s].fn.args))
                  => req[s].resp.kind = "error"

\* Whenever a similarity handler does answer with matches, they are the
\* first min(topN, k) candidates.
MatchCountWhenAnswered ==
    \A s \in Slots :
        (Answered(s) /\ req[s].topN > 0 /\ req[s].resp.kind = "matches") =>
            LET ms == req[s].resp.matches
            IN  /\ Len(ms) = Min(req[s].topN, Cardinality(PresentIds))
                /\ \A i \in 1..Len(ms) : ms[i].id \in PresentIds
                /\ \A i \in 1..Len(ms), j \in 1..Len(ms) :
                      i # j => ms[i].id # ms[j].id

(***************************************************************************)
(* C1.  After any sequence of completed generation requests, through       *)
(* /generate-world and /ai-function-call and whatever the providers        *)
(* answered, the k-th World of the collection has id k.                    *)
(***************************************************************************)
C1_DenseIds == \A k \in 1..Len(worlds) : worlds[k]["id"] = k

\* Three requests, the second declined: the first World stored after a
\* failed generation, the second by /ai-function-call without embedding.
C1_Witness ==
    /\ owners = <<1, 3>>
    /\ worlds[1]["summary"] = FallbackSummary
    /\ worlds[1]["embedding"].present
    /\ req[1].pc = "done" /\ req[1].ep = "function"
    /\ req[1].resp.kind = "world" /\ ~req[1].embedding.present
    /\ req[1].resp.world["id"] = 2
    /\ worlds[2]["summary"] = "X"

\* The model declined: no function call, or one of another name.
Declined(fn) ==
    fn.kind = "nofn" \/ (fn.kind = "call" /\ fn.name # "generateWorld")

(***************************************************************************)
(* C8.  When the model's answer to /ai-function-call carries no function   *)
(* invocation, or one whose name is not generateWorld, the endpoint        *)
(* answers with an error and attempts no generation: generate_world and    *)
(* the embedding provider are not invoked and the collection is unchanged. *)
(***************************************************************************)
C8_NoGenerationOnDecline ==
    [][\A s \in Slots :
          (req[s].pc = "fnmodel" /\ req'[s].fn # req[s].fn
              /\ Declined(req'[s].fn)) =>
                /\ req'[s].pc = "done"
                /\ req'[s].resp.kind = "error"
                /\ ~req'[s].generated
                /\ req'[s].calls = <<>>
                /\ worlds' = worlds]_vars

\* A declined invocation of another name, over a store that holds a World.
C8_Witness ==
    \E s \in Slots :
        /\ req[s].pc = "done" /\ req[s].ep = "function"
        /\ req[s].fn.kind = "call" /\ req[s].fn.name = "describeWorld"
        /\ req[s].resp.kind = "error"
        /\ Len(worlds) = 1

\* Ids of the stored Worlds, and the step that stores one.
C9_UniqueIds ==
    /\ \A i \in 1..Len(worlds), j \in 1..Len(worlds) :
          i # j => worlds[i]["id"] # worlds[j]["id"]
    /\ \A k \in 1..Len(worlds) : worlds[k]["id"] = k
    /\ Len(owners) = Len(worlds)

C9_AppendStep ==
    worlds' # worlds =>
        \E s \in Slots :
            /\ req[s].pc = "embed" /\ req'[s].pc = "done"
            /\ req'[s].resp.kind = "world"
            /\ req'[s].resp.world["id"] = Len(worlds) + 1
            /\ worlds' = Append(worlds, req'[s].resp.world)
            /\ owners' = Append(owners, req[s].ticket)

(***************************************************************************)
(* C9.  With generation requests in flight together, interleaving only at  *)
(* the provider calls, no two stored Worlds share an id and the k-th has   *)
(* id k: the length is read and the World appended in the one step in      *)
(* which a request finishes assembling its record, so ids follow the       *)
(* order of finishing, not of arrival.                                     *)
(***************************************************************************)
C9_ConcurrentIds == []C9_UniqueIds /\ [][C9_AppendStep]_vars

\* The request that arrived second finished first and holds id 1.
C9_Witness ==
    /\ owners = <<2, 1>>
    /\ worlds[1]["id"] = 1 /\ worlds[2]["id"] = 2
    /\ \E s \in Slots : req[s].ticket = 1 /\ req[s].len0 = 0
                        /\ req[s].resp.kind = "world"
                        /\ req[s].resp.world["id"] = 2

(***************************************************************************)
(* C10.  The model's JSON never overwrites a stored World's id, reasoning  *)
(* or embedding: whatever the response, and also when its object has keys  *)
(* named id, reasoning or embedding, the stored World has exactly the keys *)
(* id, reasoning, summary, biome, culture, tone, myth and embedding, its   *)
(* id is the sequential one, its reasoning the text before the first "{"   *)
(* (empty on fallback) and its embedding what the provider returned.       *)
(***************************************************************************)
C10_StoredWorldFields ==
    /\ \A k \in 1..Len(worlds) :
          DOMAIN worlds[k] = WorldKeys /\ worlds[k]["id"] = k
    /\ \A s \in Slots :
          (req[s].pc = "done" /\ req[s].resp.kind = "world") =>
              LET r == req[s]
                  w == r.resp.world
                  n == Len(r.calls)
              IN  /\ w["id"] \in 1..Len(worlds)
                  /\ worlds[w["id"]] = w
                  /\ IF GenerationFailed(r.out) THEN w["reasoning"] = <<>>
                     ELSE IsTrimOf(w["reasoning"], Preamble(r.out.text))
                  /\ w["embedding"] =
                        IF r.calls[n].kind = "ok" THEN r.calls[n].emb
                        ELSE NoneEmb

\* The object named id, reasoning and embedding; the World kept its own.
C10_Witness ==
    \E s \in Slots :
        /\ req[s].pc = "done" /\ req[s].resp.kind = "world"
        /\ ~GenerationFailed(req[s].out)
        /\ HasMember(Braced(req[s].out.text), "id")
        /\ HasMember(Braced(req[s].out.text), "reasoning")
        /\ HasMember(Braced(req[s].out.text), "embedding")
        /\ req[s].resp.world["id"] = 2
        /\ req[s].resp.world["reasoning"] = <<"w">>
        /\ req[s].resp.world["embedding"] = Vec(<<1, 0>>)
        /\ req[s].resp.world["summary"] = "X"

====
